---- MODULE Spec2Model ----
(***************************************************************************)
(* ArmatureProxy (mixer/blender_data/armature_proxy.py): the proxy of an   *)
(* Armature datablock, whose edit_bones are readable and writable only     *)
(* while the object that owns the armature is in EDIT mode.                *)
(*                                                                         *)
(* The state is the host document (the objects' modes, the active object,  *)
(* the datablocks' live attributes), one proxy (self._data) and the class  *)
(* level map ArmatureProxy._edit_bones_map.  Every method is one action;   *)
(* its body is an operator that threads a machine state through the        *)
(* statements of the method in order.  A raised exception is the field exc *)
(* of the machine state: once set, every later statement is skipped, as in *)
(* Python, unless a try/except clears it.                                  *)
(***************************************************************************)
EXTENDS Integers, Sequences, FiniteSets, TLC

\* Longest edit_bones collection of the model.
MaxBones == 1

\* ------------------------------------------------------------------ host

\* bpy.data.objects, in iteration order.
ObjectList == <<"o1", "o2">>

Objects == {ObjectList[i] : i \in 1..Len(ObjectList)}

\* Python's None (no object, no result).
None == "None"

\* The armature datablocks.  d3 is an instance no object references; it
\* carries the same mixer_uuid as d1.
Datablocks == {"d1", "d2", "d3"}

\* obj.data
ObjData == [o \in Objects |-> IF o = "o1" THEN "d1" ELSE "d2"]

\* datablock.mixer_uuid
mixer_uuid == [d \in Datablocks |-> IF d = "d2" THEN "u2" ELSE "u1"]

Uuids == {mixer_uuid[d] : d \in Datablocks}

\* Values of Object.mode that bpy.ops.object.mode_set accepts.
ObjModes == {"OBJECT", "EDIT", "POSE"}

\* bpy.context.mode: the mode of the active object, in the context's own
\* enumeration (EDIT is reported as EDIT_ARMATURE); OBJECT without one.
ContextMode(s) ==
    IF s.active = None THEN "OBJECT"
    ELSE IF s.mode[s.active] = "EDIT" THEN "EDIT_ARMATURE"
    ELSE s.mode[s.active]

\* edit_bones values: <<>>, <<1>>, <<1, 2>>, ...
BoneSeqs == {[i \in 1..n |-> i] : n \in 0..MaxBones}

\* Values of the ordinary attribute.
NameVals == {"a", "b"}

\* The attribute names of an armature the model keeps, in the order a proxy
\* holds them.
KeyOrder == <<"name", "edit_bones">>

Keys == {KeyOrder[i] : i \in 1..Len(KeyOrder)}

\* A Python dict is a function; a key it does not hold is outside its
\* domain.  The empty dict is <<>>.
Put(f, k, v) == (k :> v) @@ f

Del(f, k) == [x \in DOMAIN f \ {k} |-> f[x]]

\* The contents self._data can have: any subset of the attributes.
Dicts ==
    {n @@ b : n \in {<<>>} \cup {[name |-> v] : v \in NameVals},
              b \in {<<>>} \cup {[edit_bones |-> v] : v \in BoneSeqs}}

\* ------------------------------------------------------- machine state

Exc(s) == s.exc # "none"

Raise(s, e) == IF Exc(s) THEN s ELSE [s EXCEPT !.exc = e]

Log(s, ev) == [s EXCEPT !.events = Append(@, ev)]

Return(s, v) == IF Exc(s) THEN s ELSE [s EXCEPT !.ret = v]

\* bpy.context.view_layer.objects.active = obj
SetActive(s, obj) ==
    IF Exc(s) THEN s
    ELSE Log([s EXCEPT !.active = obj], <<"active", obj>>)

\* bpy.ops.object.mode_set(mode=m) on target (the context's active object).
\* The operator raises when it has no object to act on, when m is no value
\* of its mode enumeration, and when the host refuses the transition.
HostModeSet(s, target, m, refused) ==
    IF Exc(s) THEN s
    ELSE IF target = None THEN Raise(s, "RuntimeError")
    ELSE IF m \notin ObjModes THEN Raise(s, "TypeError")
    ELSE IF refused THEN Raise(Log(s, <<"refused", target, m>>), "ModeTransitionError")
    ELSE Log([s EXCEPT !.mode[target] = m], <<"mode_set", target, m>>)

\* Whether the owner of d is in EDIT mode in s.
Gated(s, d) == \E o \in Objects : ObjData[o] = d /\ s.mode[o] = "EDIT"

\* The live edit_bones of d as the host exposes them: the collection is
\* empty unless the owner of d is in EDIT mode.
ReadBones(s, d) == IF Gated(s, d) THEN s.bones[d] ELSE <<>>

\* The live value of attribute k of d.
Live(s, d, k) == IF k = "name" THEN s.name[d] ELSE ReadBones(s, d)

\* ------------------------------------------ the generic base operations

\* A Delta: the change of one attribute to a value.
Deltas ==
    {[name |-> v] : v \in NameVals} \cup {[edit_bones |-> v] : v \in BoneSeqs}

\* mixer.blender_data.attributes.write_attribute(datablock, k, v, context).
\* edit_bones can be written only while the owner is in EDIT mode.  fault
\* says how the write fails: not at all ("ok"), before it has touched the
\* datablock ("untouched"), or after it has replaced the collection by the
\* first kept bones of v only ("partial").
write_attribute(s, d, k, v, fault, kept) ==
    IF Exc(s) THEN s
    ELSE LET s1 == Log(s, <<"write", d, k, Gated(s, d)>>)
             failed == Raise(Log(s1, <<"write_failed", d, k>>), "WriteError")
         IN IF k = "name"
            THEN IF fault = "ok" THEN [s1 EXCEPT !.name[d] = v] ELSE failed
            ELSE IF ~Gated(s, d) \/ fault = "untouched" THEN failed
            ELSE IF fault = "ok" \/ kept >= Len(v) THEN [s1 EXCEPT !.bones[d] = v]
            ELSE [failed EXCEPT !.bones[d] = SubSeq(v, 1, kept)]

\* DatablockProxy.load: capture every attribute of the datablock.
BaseLoad(s, d, fails) ==
    IF Exc(s) THEN s
    ELSE LET s1 == Log(s, <<"body", "load", d, Gated(s, d)>>)
         IN IF fails THEN Raise(s1, "BodyError")
            ELSE [s1 EXCEPT !.data = [k \in Keys |-> Live(s, d, k)]]

\* DatablockProxy._diff: compare the proxy with the live datablock; None
\* when they agree, else the Delta that updates the proxy to the live state.
BaseDiff(s, d, fails) ==
    IF Exc(s) THEN s
    ELSE LET s1 == Log(s, <<"body", "_diff", d, Gated(s, d)>>)
             changed == {k \in Keys : IF k \in DOMAIN s.data
                                      THEN s.data[k] # Live(s, d, k) ELSE TRUE}
         IN IF fails THEN Raise(s1, "BodyError")
            ELSE IF changed = {} THEN Return(s1, None)
            ELSE Return([s1 EXCEPT !.delta = [k \in changed |-> Live(s, d, k)]], "Delta")

\* Write the members of the delta to the datablock, in the proxy's order.
RECURSIVE WriteMembers(_, _, _, _)
WriteMembers(s, d, delta, i) ==
    IF i > Len(KeyOrder) THEN s
    ELSE LET k == KeyOrder[i]
         IN WriteMembers(IF k \in DOMAIN delta
                         THEN write_attribute(s, d, k, delta[k], "ok", 0) ELSE s,
                         d, delta, i + 1)

\* DatablockProxy.apply: update the proxy from the delta and, with
\* to_blender, write the updated members to the datablock.
BaseApply(s, d, delta, to_blender, fails) ==
    IF Exc(s) THEN s
    ELSE LET s1 == Log(s, <<"body", "apply", d, Gated(s, d)>>)
             s2 == [s1 EXCEPT !.data = delta @@ @]
             s3 == IF to_blender THEN WriteMembers(s2, d, delta, 1) ELSE s2
         IN IF fails THEN Raise(s1, "BodyError") ELSE Return(s3, "self")

\* ------------------------------------------------------- ArmatureProxy

\* The first object of bpy.data.objects whose data is the datablock.
find_armature_parent_object(datablock) ==
    LET hits == {i \in 1..Len(ObjectList) : ObjData[ObjectList[i]] = datablock}
    IN IF hits = {} THEN None
       ELSE ObjectList[CHOOSE i \in hits : \A j \in hits : i <= j]

\* override_context(): a copy of bpy.context when a window has a VIEW_3D
\* area, None (is_none) otherwise.
override_context(s, view3d) ==
    [is_none |-> ~view3d, active_object |-> s.active, mode |-> ContextMode(s)]

\* SaveItems that writes edit_bones to the datablock like every other
\* attribute.
RECURSIVE SaveItems_WritesAll(_, _, _)
SaveItems_WritesAll(s, datablock, i) ==
    IF i > Len(KeyOrder) THEN s
    ELSE LET k == KeyOrder[i]
             s1 == IF k \notin DOMAIN s.data THEN s
                   ELSE write_attribute(s, datablock, k, s.data[k], "ok", 0)
         IN SaveItems_WritesAll(s1, datablock, i + 1)

\* SaveItems that leaves an entry _edit_bones_map already holds as it is.
RECURSIVE SaveItems_KeepsFirst(_, _, _)
SaveItems_KeepsFirst(s, datablock, i) ==
    IF i > Len(KeyOrder) THEN s
    ELSE LET k == KeyOrder[i]
             s1 == IF k \notin DOMAIN s.data THEN s
                   ELSE IF k # "edit_bones"
                   THEN write_attribute(s, datablock, k, s.data[k], "ok", 0)
                   ELSE IF mixer_uuid[datablock] \in DOMAIN s.map THEN s
                   ELSE Log([s EXCEPT !.map = Put(@, mixer_uuid[datablock], s.data[k])],
                            <<"stash", mixer_uuid[datablock]>>)
         IN SaveItems_KeepsFirst(s1, datablock, i + 1)

\* The items of self._data from the i-th on: every attribute but edit_bones
\* is written to the datablock, edit_bones goes to _edit_bones_map.
RECURSIVE SaveItems(_, _, _)
SaveItems(s, datablock, i) ==
    IF i > Len(KeyOrder) THEN s
    ELSE LET k == KeyOrder[i]
             s1 == IF k \notin DOMAIN s.data THEN s
                   ELSE IF k # "edit_bones"
                   THEN write_attribute(s, datablock, k, s.data[k], "ok", 0)
                   ELSE Log([s EXCEPT !.map = Put(@, mixer_uuid[datablock], s.data[k])],
                            <<"stash", mixer_uuid[datablock]>>)
         IN SaveItems(s1, datablock, i + 1)

\* _save that does not test what self._pre_save returns.
_save_IgnoresPreSave(s, datablock, accept) ==
    LET s1 == SaveItems(s, datablock, 1)
        s2 == Log(s1, <<"custom_properties.save", datablock>>)
    IN Return(s2, datablock)

\* ArmatureProxy._save(datablock, context); accept is the answer of
\* self._pre_save.
_save(s, datablock, accept) ==
    IF ~accept THEN Return(Log(s, <<"warning">>), "(None, None)")
    ELSE LET s1 == SaveItems(s, datablock, 1)
             s2 == Log(s1, <<"custom_properties.save", datablock>>)
         IN Return(s2, datablock)

\* load without the switch to EDIT mode before the delegated load.
load_NoEdit(s, datablock, in) ==
    LET obj == find_armature_parent_object(datablock)
        ctx0 == override_context(s, in.view3d)
    IN IF obj = None THEN Return(s, "self")
       ELSE IF ctx0.is_none THEN Raise(s, "TypeError")
       ELSE LET ctx == [ctx0 EXCEPT !.active_object = obj]
                previous_mode == ctx.mode
                s2 == BaseLoad(s, datablock, in.fails)
                s3 == HostModeSet(s2, ctx.active_object, previous_mode, in.refuse = 2)
            IN Return(s3, "self")

\* ArmatureProxy.load(datablock, context)
load(s, datablock, in) ==
    LET obj == find_armature_parent_object(datablock)
        ctx0 == override_context(s, in.view3d)
    IN IF obj = None THEN Return(s, "self")
       ELSE IF ctx0.is_none THEN Raise(s, "TypeError")
       ELSE LET ctx == [ctx0 EXCEPT !.active_object = obj]
                previous_mode == ctx.mode
                s1 == HostModeSet(s, ctx.active_object, "EDIT", in.refuse = 1)
                s2 == BaseLoad(s1, datablock, in.fails)
                s3 == HostModeSet(s2, ctx.active_object, previous_mode, in.refuse = 2)
            IN Return(s3, "self")

\* _diff that goes on when the switch to EDIT mode is refused.
_diff_IgnoresRefusal(s, armature, in) ==
    LET prev_active == s.active
        s1 == IF prev_active = None THEN Raise(s, "AttributeError") ELSE s
        prev_active_mode == IF prev_active = None THEN None ELSE s.mode[prev_active]
        obj == find_armature_parent_object(armature)
        s2 == SetActive(s1, obj)
        s3 == IF obj = None THEN Raise(s2, "AttributeError") ELSE s2
        prev_obj_mode == IF obj = None THEN None ELSE s.mode[obj]
        s4 == IF Exc(s3) THEN s3
              ELSE [HostModeSet(s3, s3.active, "EDIT", in.refuse = 1)
                       EXCEPT !.exc = "none"]
        s5 == BaseDiff(s4, armature, in.fails)
        s6 == HostModeSet(s5, s5.active, prev_obj_mode, in.refuse = 2)
        s7 == SetActive(s6, prev_active)
        s8 == HostModeSet(s7, s7.active, prev_active_mode, in.refuse = 3)
    IN s8

\* ArmatureProxy._diff(armature, key, prop, context, diff)
_diff(s, armature, in) ==
    LET prev_active == s.active
        s1 == IF prev_active = None THEN Raise(s, "AttributeError") ELSE s
        prev_active_mode == IF prev_active = None THEN None ELSE s.mode[prev_active]
        obj == find_armature_parent_object(armature)
        s2 == SetActive(s1, obj)
        s3 == IF obj = None THEN Raise(s2, "AttributeError") ELSE s2
        prev_obj_mode == IF obj = None THEN None ELSE s.mode[obj]
        s4 == HostModeSet(s3, s3.active, "EDIT", in.refuse = 1)
        s5 == BaseDiff(s4, armature, in.fails)
        s6 == HostModeSet(s5, s5.active, prev_obj_mode, in.refuse = 2)
        s7 == SetActive(s6, prev_active)
        s8 == HostModeSet(s7, s7.active, prev_active_mode, in.refuse = 3)
    IN s8

\* apply that makes prev_active the active object before it restores the
\* mode of obj.
apply_RestoresActiveFirst(s, attribute, key_is_str, delta, to_blender, in) ==
    LET s0 == IF key_is_str THEN s ELSE Raise(s, "AssertionError")
        prev_active == s.active
        s1 == IF prev_active = None THEN Raise(s0, "AttributeError") ELSE s0
        prev_active_mode == IF prev_active = None THEN None ELSE s.mode[prev_active]
        obj == find_armature_parent_object(attribute)
        s2 == SetActive(s1, obj)
        s3 == IF obj = None THEN Raise(s2, "AttributeError") ELSE s2
        prev_obj_mode == IF obj = None THEN None ELSE s.mode[obj]
        s4 == HostModeSet(s3, s3.active, "EDIT", in.refuse = 1)
        s5 == BaseApply(s4, attribute, delta, to_blender, in.fails)
        s6 == SetActive(s5, prev_active)
        s7 == HostModeSet(s6, s6.active, prev_obj_mode, in.refuse = 2)
        s8 == HostModeSet(s7, s7.active, prev_active_mode, in.refuse = 3)
    IN s8

\* apply that restores the mode of the active object on obj and the mode of
\* obj on the active object.
apply_SwapsRestoredModes(s, attribute, key_is_str, delta, to_blender, in) ==
    LET s0 == IF key_is_str THEN s ELSE Raise(s, "AssertionError")
        prev_active == s.active
        s1 == IF prev_active = None THEN Raise(s0, "AttributeError") ELSE s0
        prev_active_mode == IF prev_active = None THEN None ELSE s.mode[prev_active]
        obj == find_armature_parent_object(attribute)
        s2 == SetActive(s1, obj)
        s3 == IF obj = None THEN Raise(s2, "AttributeError") ELSE s2
        prev_obj_mode == IF obj = None THEN None ELSE s.mode[obj]
        s4 == HostModeSet(s3, s3.active, "EDIT", in.refuse = 1)
        s5 == BaseApply(s4, attribute, delta, to_blender, in.fails)
        s6 == HostModeSet(s5, s5.active, prev_active_mode, in.refuse = 2)
        s7 == SetActive(s6, prev_active)
        s8 == HostModeSet(s7, s7.active, prev_obj_mode, in.refuse = 3)
    IN s8

\* ArmatureProxy.apply(attribute, parent, key, delta, context, to_blender);
\* key_is_str is isinstance(key, str).
apply(s, attribute, key_is_str, delta, to_blender, in) ==
    LET s0 == IF key_is_str THEN s ELSE Raise(s, "AssertionError")
        prev_active == s.active
        s1 == IF prev_active = None THEN Raise(s0, "AttributeError") ELSE s0
        prev_active_mode == IF prev_active = None THEN None ELSE s.mode[prev_active]
        obj == find_armature_parent_object(attribute)
        s2 == SetActive(s1, obj)
        s3 == IF obj = None THEN Raise(s2, "AttributeError") ELSE s2
        prev_obj_mode == IF obj = None THEN None ELSE s.mode[obj]
        s4 == HostModeSet(s3, s3.active, "EDIT", in.refuse = 1)
        s5 == BaseApply(s4, attribute, delta, to_blender, in.fails)
        s6 == HostModeSet(s5, s5.active, prev_obj_mode, in.refuse = 2)
        s7 == SetActive(s6, prev_active)
        s8 == HostModeSet(s7, s7.active, prev_active_mode, in.refuse = 3)
    IN s8

\* The write of edit_bones without the try/except around it.
TryWrite_Propagates(s, d, v, fault, kept) ==
    write_attribute(s, d, "edit_bones", v, fault, kept)

\* try: write_attribute(...) except Exception: pass
TryWrite(s, d, v, fault, kept) ==
    IF Exc(s) THEN s
    ELSE [write_attribute(s, d, "edit_bones", v, fault, kept) EXCEPT !.exc = "none"]

\* apply_edit_bones that ends in the mode obj had at the call, not in OBJECT.
apply_edit_bones_RestoresMode(s, obj, in) ==
    LET uuid == mixer_uuid[ObjData[obj]]
    IN IF ObjData[obj] \notin Datablocks THEN Return(s, None)
       ELSE IF uuid \notin DOMAIN s.map
       THEN Return(Log(s, <<"error", "No edit bones found">>), None)
       ELSE IF Len(s.map[uuid]) = 0 THEN Return(s, None)
       ELSE LET edit_bones == s.map[uuid]
                s1 == Log(s, <<"resolve", obj>>)
                s2 == IF ContextMode(s1) # "OBJECT"
                      THEN HostModeSet(s1, s1.active, "OBJECT", in.refuse = 1)
                      ELSE s1
                s3 == SetActive(s2, obj)
                s4 == HostModeSet(s3, s3.active, "EDIT", in.refuse = 2)
                s5 == TryWrite(s4, ObjData[obj], edit_bones, in.write, in.kept)
                s6 == IF Exc(s5) THEN s5 ELSE [s5 EXCEPT !.map = Del(@, uuid)]
                s7 == HostModeSet(s6, s6.active, s.mode[obj], in.refuse = 3)
            IN Return(s7, None)

\* apply_edit_bones with the test of the empty value inverted.
apply_edit_bones_WritesEmptyOnly(s, obj, in) ==
    LET uuid == mixer_uuid[ObjData[obj]]
    IN IF ObjData[obj] \notin Datablocks THEN Return(s, None)
       ELSE IF uuid \notin DOMAIN s.map
       THEN Return(Log(s, <<"error", "No edit bones found">>), None)
       ELSE IF Len(s.map[uuid]) # 0 THEN Return(s, None)
       ELSE LET edit_bones == s.map[uuid]
                s1 == Log(s, <<"resolve", obj>>)
                s2 == IF ContextMode(s1) # "OBJECT"
                      THEN HostModeSet(s1, s1.active, "OBJECT", in.refuse = 1)
                      ELSE s1
                s3 == SetActive(s2, obj)
                s4 == HostModeSet(s3, s3.active, "EDIT", in.refuse = 2)
                s5 == TryWrite(s4, ObjData[obj], edit_bones, in.write, in.kept)
                s6 == IF Exc(s5) THEN s5 ELSE [s5 EXCEPT !.map = Del(@, uuid)]
                s7 == HostModeSet(s6, s6.active, "OBJECT", in.refuse = 3)
            IN Return(s7, None)

\* apply_edit_bones that deletes the entry of _edit_bones_map only when the
\* write has not failed.
apply_edit_bones_KeepsEntryOnFailure(s, obj, in) ==
    LET uuid == mixer_uuid[ObjData[obj]]
    IN IF ObjData[obj] \notin Datablocks THEN Return(s, None)
       ELSE IF uuid \notin DOMAIN s.map
       THEN Return(Log(s, <<"error", "No edit bones found">>), None)
       ELSE IF Len(s.map[uuid]) = 0 THEN Return(s, None)
       ELSE LET edit_bones == s.map[uuid]
                s1 == Log(s, <<"resolve", obj>>)
                s2 == IF ContextMode(s1) # "OBJECT"
                      THEN HostModeSet(s1, s1.active, "OBJECT", in.refuse = 1)
                      ELSE s1
                s3 == SetActive(s2, obj)
                s4 == HostModeSet(s3, s3.active, "EDIT", in.refuse = 2)
                s5 == TryWrite(s4, ObjData[obj], edit_bones, in.write, in.kept)
                failed == \E i \in 1..Len(s5.events) : s5.events[i][1] = "write_failed"
                s6 == IF Exc(s5) \/ failed THEN s5 ELSE [s5 EXCEPT !.map = Del(@, uuid)]
                s7 == HostModeSet(s6, s6.active, "OBJECT", in.refuse = 3)
            IN Return(s7, None)

\* apply_edit_bones that goes to OBJECT mode before it looks for the entry.
apply_edit_bones_ResetsModeFirst(s, obj, in) ==
    LET uuid == mixer_uuid[ObjData[obj]]
        s0 == IF ContextMode(s) # "OBJECT"
              THEN HostModeSet(s, s.active, "OBJECT", FALSE)
              ELSE s
    IN IF ObjData[obj] \notin Datablocks THEN Return(s0, None)
       ELSE IF uuid \notin DOMAIN s.map
       THEN Return(Log(s0, <<"error", "No edit bones found">>), None)
       ELSE IF Len(s.map[uuid]) = 0 THEN Return(s0, None)
       ELSE LET edit_bones == s.map[uuid]
                s1 == Log(s0, <<"resolve", obj>>)
                s2 == IF ContextMode(s1) # "OBJECT"
                      THEN HostModeSet(s1, s1.active, "OBJECT", in.refuse = 1)
                      ELSE s1
                s3 == SetActive(s2, obj)
                s4 == HostModeSet(s3, s3.active, "EDIT", in.refuse = 2)
                s5 == TryWrite(s4, ObjData[obj], edit_bones, in.write, in.kept)
                s6 == IF Exc(s5) THEN s5 ELSE [s5 EXCEPT !.map = Del(@, uuid)]
                s7 == HostModeSet(s6, s6.active, "OBJECT", in.refuse = 3)
            IN Return(s7, None)

\* apply_edit_bones without the test of the empty value.
apply_edit_bones_NoEmptyTest(s, obj, in) ==
    LET uuid == mixer_uuid[ObjData[obj]]
    IN IF ObjData[obj] \notin Datablocks THEN Return(s, None)
       ELSE IF uuid \notin DOMAIN s.map
       THEN Return(Log(s, <<"error", "No edit bones found">>), None)
       ELSE LET edit_bones == s.map[uuid]
                s1 == Log(s, <<"resolve", obj>>)
                s2 == IF ContextMode(s1) # "OBJECT"
                      THEN HostModeSet(s1, s1.active, "OBJECT", in.refuse = 1)
                      ELSE s1
                s3 == SetActive(s2, obj)
                s4 == HostModeSet(s3, s3.active, "EDIT", in.refuse = 2)
                s5 == TryWrite(s4, ObjData[obj], edit_bones, in.write, in.kept)
                s6 == IF Exc(s5) THEN s5 ELSE [s5 EXCEPT !.map = Del(@, uuid)]
                s7 == HostModeSet(s6, s6.active, "OBJECT", in.refuse = 3)
            IN Return(s7, None)

\* apply_edit_bones that writes the edit_bones before it enters EDIT mode.
apply_edit_bones_WritesBeforeEdit(s, obj, in) ==
    LET uuid == mixer_uuid[ObjData[obj]]
    IN IF ObjData[obj] \notin Datablocks THEN Return(s, None)
       ELSE IF uuid \notin DOMAIN s.map
       THEN Return(Log(s, <<"error", "No edit bones found">>), None)
       ELSE IF Len(s.map[uuid]) = 0 THEN Return(s, None)
       ELSE LET edit_bones == s.map[uuid]
                s1 == Log(s, <<"resolve", obj>>)
                s2 == IF ContextMode(s1) # "OBJECT"
                      THEN HostModeSet(s1, s1.active, "OBJECT", in.refuse = 1)
                      ELSE s1
                s3 == SetActive(s2, obj)
                s4 == TryWrite(s3, ObjData[obj], edit_bones, in.write, in.kept)
                s5 == HostModeSet(s4, s4.active, "EDIT", in.refuse = 2)
                s6 == IF Exc(s5) THEN s5 ELSE [s5 EXCEPT !.map = Del(@, uuid)]
                s7 == HostModeSet(s6, s6.active, "OBJECT", in.refuse = 3)
            IN Return(s7, None)

\* ArmatureProxy.apply_edit_bones(obj, context)
apply_edit_bones(s, obj, in) ==
    LET uuid == mixer_uuid[ObjData[obj]]
    IN IF ObjData[obj] \notin Datablocks THEN Return(s, None)
       ELSE IF uuid \notin DOMAIN s.map
       THEN Return(Log(s, <<"error", "No edit bones found">>), None)
       ELSE IF Len(s.map[uuid]) = 0 THEN Return(s, None)
       ELSE LET edit_bones == s.map[uuid]
                s1 == Log(s, <<"resolve", obj>>)
                s2 == IF ContextMode(s1) # "OBJECT"
                      THEN HostModeSet(s1, s1.active, "OBJECT", in.refuse = 1)
                      ELSE s1
                s3 == SetActive(s2, obj)
                s4 == HostModeSet(s3, s3.active, "EDIT", in.refuse = 2)
                s5 == TryWrite(s4, ObjData[obj], edit_bones, in.write, in.kept)
                s6 == IF Exc(s5) THEN s5 ELSE [s5 EXCEPT !.map = Del(@, uuid)]
                s7 == HostModeSet(s6, s6.active, "OBJECT", in.refuse = 3)
            IN Return(s7, None)

\* ------------------------------------------------------------ the system

\* The proxy of the model mirrors the armature whose mixer_uuid is u1: its
\* methods are called with the instances of that armature.
ProxyDatablocks == {d \in Datablocks : mixer_uuid[d] = "u1"}

VARIABLES mode, active, bones, name, _data, _edit_bones_map, last, chain

vars == <<mode, active, bones, name, _data, _edit_bones_map, last, chain>>

\* The document, the proxy and the class-level map.
Snapshot ==
    [mode |-> mode, active |-> active, bones |-> bones, name |-> name,
     data |-> _data, map |-> _edit_bones_map, chain |-> chain]

\* The state a method starts from.
Cur ==
    [mode |-> mode, active |-> active, bones |-> bones, name |-> name,
     data |-> _data, map |-> _edit_bones_map,
     exc |-> "none", ret |-> "unset", delta |-> <<>>, events |-> <<>>]

\* What the environment decides during a call: whether a VIEW_3D area
\* exists, which mode_set call (0: none) the host refuses, whether the
\* delegated body fails, how the edit_bones write of apply_edit_bones
\* fails.
Faults ==
    [view3d : BOOLEAN, refuse : 0..3, fails : BOOLEAN,
     write : {"ok", "untouched", "partial"}, kept : 0..(MaxBones - 1)]

NoFault == [view3d |-> TRUE, refuse |-> 0, fails |-> FALSE, write |-> "ok", kept |-> 0]

\* A raised exception ends the call, so one fault per call is enough.
GuardInputs ==
    {[NoFault EXCEPT !.view3d = FALSE], [NoFault EXCEPT !.fails = TRUE]}
    \cup {[NoFault EXCEPT !.refuse = n] : n \in 0..3}

\* apply_edit_bones catches the failure of the write: a mode_set after it
\* can still be refused.
CommitInputs ==
    {in \in Faults : /\ in.view3d /\ ~in.fails
                     /\ in.write # "partial" => in.kept = 0
                     /\ in.refuse \in {1, 2} => in.write = "ok"}

\* The deltas apply is called with: a call that fails before the delegated
\* body has read the delta is the same call for every delta.
ApplyArgs(in) ==
    IF in.refuse = 1 \/ in.fails
    THEN {<<TRUE, [name |-> "a"], TRUE>>}
    ELSE {<<TRUE, delta, to_blender>> : delta \in Deltas, to_blender \in BOOLEAN}

\* No call is outstanding.
Idle ==
    [op |-> "idle", target |-> None, arg |-> <<>>, exc |-> "none",
     ret |-> "unset", delta |-> <<>>, events |-> <<>>, pre |-> <<>>]

\* History of the calls that have returned.  stage is "load" once a load
\* of a datablock that has an owner has returned normally, for as long as
\* no later call changes self._data; "load_save" once an accepted _save has
\* followed, for as long as no later call changes self._data or
\* _edit_bones_map; "save" after any other accepted _save, for as long;
\* "none" otherwise.  saved is the datablock of that _save.
NoChain == [stage |-> "none", saved |-> None]

NextChain(r, op, target) ==
    IF op = "load" /\ ~Exc(r) /\ find_armature_parent_object(target) # None
    THEN [stage |-> "load", saved |-> None]
    ELSE IF op = "_save" /\ ~Exc(r) /\ r.ret # "(None, None)"
    THEN [stage |-> IF chain.stage \in {"load", "load_save"}
                    THEN "load_save" ELSE "save",
          saved |-> target]
    ELSE IF r.data = _data /\ (r.map = _edit_bones_map \/ chain.stage = "load")
    THEN chain
    ELSE NoChain

\* The state after a call that ended in r, and the record of the call.
Outcome(r, op, target, arg) ==
    /\ mode' = r.mode
    /\ active' = r.active
    /\ bones' = r.bones
    /\ name' = r.name
    /\ _data' = r.data
    /\ _edit_bones_map' = r.map
    /\ last' = [op |-> op, target |-> target, arg |-> arg,
                exc |-> r.exc,
                ret |-> IF Exc(r) THEN "unset" ELSE r.ret,
                delta |-> IF Exc(r) THEN <<>> ELSE r.delta,
                events |-> r.events,
                pre |-> Snapshot]
    /\ chain' = NextChain(r, op, target)

\* A call made when no call is outstanding.
Commit(r, op, target, arg) ==
    /\ last = Idle
    /\ Outcome(r, op, target, arg)

Init ==
    /\ mode \in [Objects -> ObjModes]
    /\ active \in Objects \cup {None}
    /\ bones \in {[d \in Datablocks |-> IF d = "d1" THEN b ELSE <<>>] : b \in BoneSeqs}
    /\ name = [d \in Datablocks |-> "a"]
    /\ _data = <<>>
    /\ _edit_bones_map = <<>>
    /\ last = Idle
    /\ chain = NoChain

Load(d) == \E in \in GuardInputs : Commit(load(Cur, d, in), "load", d, <<>>)

Diff(d) == \E in \in GuardInputs : Commit(_diff(Cur, d, in), "_diff", d, <<>>)

\* The first disjunct is the call with a key that is no str.
Apply(d) ==
    \/ Commit(apply(Cur, d, FALSE, [name |-> "a"], TRUE, NoFault), "apply", d,
              <<FALSE, [name |-> "a"], TRUE>>)
    \/ \E in \in GuardInputs : \E arg \in ApplyArgs(in) :
          /\ in.view3d
          /\ Commit(apply(Cur, d, arg[1], arg[2], arg[3], in), "apply", d, arg)

Save(d) == \E accept \in BOOLEAN : Commit(_save(Cur, d, accept), "_save", d, <<accept>>)

ApplyEditBones(obj) ==
    \E in \in CommitInputs :
        Commit(apply_edit_bones(Cur, obj, in), "apply_edit_bones", obj, <<>>)

\* The caller repeats the apply that has just returned normally: the same
\* attribute, key, delta and to_blender, nothing refused by the host.
ApplyAgain ==
    /\ last.op = "apply" /\ last.exc = "none"
    /\ Outcome(apply(Cur, last.target, last.arg[1], last.arg[2], last.arg[3], NoFault),
               "apply_again", last.target, last.arg)

\* The caller has taken the outcome of the call; the next call can start.
EndCall ==
    /\ last # Idle
    /\ last' = Idle
    /\ UNCHANGED <<mode, active, bones, name, _data, _edit_bones_map, chain>>

Next ==
    \/ \E d \in ProxyDatablocks : Load(d)
    \/ \E d \in ProxyDatablocks : Diff(d)
    \/ \E d \in ProxyDatablocks : Apply(d)
    \/ \E d \in ProxyDatablocks : Save(d)
    \/ \E obj \in Objects : ApplyEditBones(obj)
    \/ ApplyAgain
    \/ EndCall

Spec == Init /\ [][Next]_vars

\* ------------------------------------------------------------ the claims

\* The owner of a datablock (None when no object references it).
Owner(d) == find_armature_parent_object(d)

\* The call that has just ended ran event kind.
Ran(kind) == \E i \in 1..Len(last.events) : last.events[i][1] = kind

\* The call that has just ended is one of the calls that bracket their
\* delegated body by EDIT mode.
GuardedCall == last.op \in {"load", "_diff", "apply"}

\* C1: a load of a datablock that has an owner and that returns normally
\* leaves the owner in the mode it had before the call.
C1_LoadKeepsOwnerMode ==
    (last.op = "load" /\ last.exc = "none" /\ Owner(last.target) # None)
        => mode[Owner(last.target)] = last.pre.mode[Owner(last.target)]

\* C2: when the delegated body of load, _diff or apply fails, the owner is
\* back in the mode it had at entry and the active object is the one of
\* entry when the failure reaches the caller.
C2_BodyFailureRestores ==
    (GuardedCall /\ last.exc = "BodyError")
        => /\ mode[Owner(last.target)] = last.pre.mode[Owner(last.target)]
           /\ active = last.pre.active


\* The object that references the linked instance of the proxy's armature.
O == CHOOSE o \in Objects : ObjData[o] \in ProxyDatablocks

\* apply_edit_bones(O) has returned normally after an accepted _save, from
\* a state where O was in no gated mode.
CommitAfterSave ==
    /\ last.op = "apply_edit_bones" /\ last.target = O /\ last.exc = "none"
    /\ last.pre.chain.stage \in {"save", "load_save"}
    /\ last.pre.mode[O] # "EDIT"

\* The value that was pending for O when the call started is not empty.
PendingValue ==
    /\ mixer_uuid[ObjData[O]] \in DOMAIN last.pre.map
    /\ Len(last.pre.map[mixer_uuid[ObjData[O]]]) > 0

\* C3 (as stated): after _save then apply_edit_bones(O), O is in the mode
\* it had immediately before apply_edit_bones, for every non-gated mode.
C3_CommitKeepsOwnerMode == CommitAfterSave => mode[O] = last.pre.mode[O]

\* C3 (amended): after _save then apply_edit_bones(O), O is in OBJECT mode
\* when a non-empty value was pending, whatever non-gated mode it had before
\* the call, and in the mode it had before the call when the pending value
\* is empty or missing.
C3_CommitEndsInObjectMode ==
    CommitAfterSave
        => mode[O] = IF PendingValue THEN "OBJECT" ELSE last.pre.mode[O]

\* C3 witness: a commit of a non-empty value that started with O in POSE.
C3_Witness ==
    /\ CommitAfterSave /\ PendingValue
    /\ last.pre.mode[O] = "POSE" /\ mode[O] = "OBJECT"
    /\ Ran("write")

\* load(D), then an accepted _save, then apply_edit_bones(O) have returned
\* normally, and no call between them has changed the proxy or, after the
\* _save, the pending value.
LoadSaveCommit ==
    /\ last.op = "apply_edit_bones" /\ last.target = O /\ last.exc = "none"
    /\ last.pre.chain.stage = "load_save"

C5_NoOwnerDiffApplyDegrade ==
    (/\ last.op \in {"_diff", "apply"} /\ Owner(last.target) = None
     /\ last.pre.active # None
     /\ last.op = "apply" => last.arg[1])
        => last.exc = "none" /\ Ran("body") /\ ~Ran("mode_set")

\* C6: load on a datablock no object references captures its ordinary
\* attribute, switches no mode and returns the proxy.
C6_NoOwnerLoadCapturesAttributes ==
    (last.op = "load" /\ Owner(last.target) = None)
        => /\ last.exc = "none" /\ last.ret = "self" /\ ~Ran("mode_set")
           /\ "name" \in DOMAIN _data
           /\ _data.name = last.pre.name[last.target]

\* C7: a _save that self._pre_save rejects returns (None, None) and changes
\* nothing: no attribute is written, _edit_bones_map keeps its entries, the
\* custom properties are not saved.
C7_RejectedSaveChangesNothing ==
    (last.op = "_save" /\ last.arg = <<FALSE>>)
        => /\ last.exc = "none" /\ last.ret = "(None, None)"
           /\ name = last.pre.name /\ bones = last.pre.bones
           /\ _edit_bones_map = last.pre.map /\ _data = last.pre.data
           /\ mode = last.pre.mode /\ active = last.pre.active
           /\ ~Ran("write") /\ ~Ran("stash") /\ ~Ran("custom_properties.save")

\* C7 witness: a rejected _save of a proxy whose captured attributes differ
\* from the datablock and from the pending value.
C7_Witness ==
    /\ last.op = "_save" /\ last.arg = <<FALSE>> /\ last.ret = "(None, None)"
    /\ DOMAIN _data = Keys
    /\ _data.name # name[last.target]
    /\ mixer_uuid[last.target] \in DOMAIN _edit_bones_map
    /\ _edit_bones_map[mixer_uuid[last.target]] # _data.edit_bones

\* C8: an accepted _save writes every captured attribute but edit_bones to
\* the datablock and puts the captured edit_bones into _edit_bones_map under
\* the mixer_uuid of the datablock; it writes no edit_bones and switches no
\* mode.
C8_AcceptedSaveDefersEditBones ==
    (last.op = "_save" /\ last.arg = <<TRUE>>)
        => /\ last.exc = "none" /\ last.ret = last.target
           /\ bones = last.pre.bones
           /\ mode = last.pre.mode /\ active = last.pre.active
           /\ ~Ran("mode_set")
           /\ _data = last.pre.data
           /\ name = IF "name" \in DOMAIN _data
                     THEN [last.pre.name EXCEPT ![last.target] = _data.name]
                     ELSE last.pre.name
           /\ _edit_bones_map =
                  IF "edit_bones" \in DOMAIN _data
                  THEN Put(last.pre.map, mixer_uuid[last.target], _data.edit_bones)
                  ELSE last.pre.map
           /\ Ran("custom_properties.save")

\* C8 witness: an accepted _save of a proxy whose captured edit_bones are
\* not the live ones and whose captured name is not the live one.
C8_Witness ==
    /\ last.op = "_save" /\ last.arg = <<TRUE>> /\ last.exc = "none"
    /\ DOMAIN _data = Keys
    /\ Len(_data.edit_bones) > 0
    /\ _data.edit_bones # bones[ObjData[O]]
    /\ _data.name # last.pre.name[last.target]
    /\ _edit_bones_map[mixer_uuid[last.target]] = _data.edit_bones

\* The first mode_set of the call, the switch to EDIT mode, was refused.
RefusedEdit ==
    \E i \in 1..Len(last.events) :
        /\ last.events[i][1] = "refused" /\ last.events[i][3] = "EDIT"
        /\ \A j \in 1..(i - 1) : last.events[j][1] \notin {"mode_set", "body"}

\* C9: when the host refuses the switch to EDIT mode in load, _diff or
\* apply, the delegated body is not run, the error reaches the caller and
\* no mode is switched afterwards; the delegated body never runs while the
\* owner is not in EDIT mode.
C9_RefusedEditSkipsBody ==
    GuardedCall
        => /\ RefusedEdit
                => /\ last.exc = "ModeTransitionError"
                   /\ ~Ran("body") /\ ~Ran("mode_set")
                   /\ last.events[Len(last.events)][1] = "refused"
                   /\ mode = last.pre.mode /\ _data = last.pre.data
           /\ \A i \in 1..Len(last.events) :
                last.events[i][1] = "body" => last.events[i][4]

\* C9 witness: the host has refused the switch to EDIT mode in a _diff.
C9_Witness ==
    /\ last.op = "_diff" /\ RefusedEdit
    /\ last.exc = "ModeTransitionError"
    /\ last.pre.mode[Owner(last.target)] = "OBJECT"

CommitUuid == mixer_uuid[ObjData[last.target]]

\* apply_edit_bones has ended, and a value was pending for its object.
CommitCall == last.op = "apply_edit_bones"

Pending == CommitCall /\ CommitUuid \in DOMAIN last.pre.map

\* C11: a failure of the write of edit_bones in apply_edit_bones does not
\* reach the caller, and when apply_edit_bones returns after such a failure
\* its object is the active object and is in OBJECT mode.
C11_WriteFailureSuppressed ==
    (CommitCall /\ Ran("write_failed"))
        => /\ last.exc # "WriteError"
           /\ last.exc = "none"
                => /\ mode[last.target] = "OBJECT"
                   /\ active = last.target
                   /\ ContextMode([mode |-> mode, active |-> active]) = "OBJECT"

\* C11 witness: the write failed after it had replaced the live edit_bones
\* by a part of the pending value, and apply_edit_bones returned normally
\* with its object, in POSE mode before, in OBJECT mode.
C11_Witness ==
    /\ CommitCall /\ Ran("write_failed") /\ last.exc = "none"
    /\ last.pre.mode[last.target] = "POSE"
    /\ mode[last.target] = "OBJECT"
    /\ bones[ObjData[last.target]] # last.pre.map[CommitUuid]

\* C12 (as stated): when the write of edit_bones fails, the entry of
\* _edit_bones_map is still there, with its value, when apply_edit_bones
\* returns.
C12_FailedWriteKeepsEntry ==
    (CommitCall /\ Ran("write_failed") /\ last.exc = "none")
        => /\ CommitUuid \in DOMAIN _edit_bones_map
           /\ _edit_bones_map[CommitUuid] = last.pre.map[CommitUuid]

\* C12 (amended): when apply_edit_bones returns after it has tried to write
\* a pending value, the entry of that value is gone from _edit_bones_map,
\* whether the write succeeded or failed, and every other entry is as it
\* was; when no write was tried the map is as it was.
C12_EntryRemovedAfterWriteAttempt ==
    (CommitCall /\ last.exc = "none")
        => _edit_bones_map = IF Ran("write") THEN Del(last.pre.map, CommitUuid)
                             ELSE last.pre.map

\* C12 witness: the write failed, the live edit_bones are not the pending
\* value, and the entry is gone.
C12_Witness ==
    /\ CommitCall /\ Ran("write_failed") /\ last.exc = "none"
    /\ CommitUuid \in DOMAIN last.pre.map
    /\ bones[ObjData[last.target]] # last.pre.map[CommitUuid]
    /\ CommitUuid \notin DOMAIN _edit_bones_map

\* C13: after apply_edit_bones(O) returns, _edit_bones_map has no entry for
\* the mixer_uuid of O's armature, whatever the pending value was.
C13_CommitTakesEntry ==
    (CommitCall /\ last.exc = "none") => CommitUuid \notin DOMAIN _edit_bones_map

\* C14: apply_edit_bones(O) with no entry for O's armature raises nothing,
\* logs the error, switches no mode, leaves the active object, the live
\* edit_bones and _edit_bones_map as they were.
C14_MissingEntryIsNoOp ==
    (CommitCall /\ ~Pending)
        => /\ last.exc = "none" /\ Ran("error")
           /\ ~Ran("mode_set") /\ ~Ran("refused") /\ ~Ran("active") /\ ~Ran("write")
           /\ mode = last.pre.mode /\ active = last.pre.active
           /\ bones = last.pre.bones /\ name = last.pre.name
           /\ _edit_bones_map = last.pre.map

\* C14 witness: apply_edit_bones on an object in EDIT mode that is not the
\* active object, while a value is pending for another armature.
C14_Witness ==
    /\ CommitCall /\ ~Pending /\ Ran("error")
    /\ last.pre.map # <<>>
    /\ last.pre.mode[last.target] = "EDIT"
    /\ last.pre.active \notin {None, last.target}
    /\ last.pre.mode[last.pre.active] = "POSE"

\* C15: apply_edit_bones(O) with an empty pending value writes nothing,
\* leaves the live edit_bones as they were and switches no mode, whatever
\* the modes and the active object are at the call.
C15_EmptyValueIsNoOp ==
    (Pending /\ Len(last.pre.map[CommitUuid]) = 0)
        => /\ last.exc = "none"
           /\ ~Ran("mode_set") /\ ~Ran("refused") /\ ~Ran("active") /\ ~Ran("write")
           /\ mode = last.pre.mode /\ active = last.pre.active
           /\ bones = last.pre.bones

\* C15 witness: an empty value is pending while the live edit_bones are not
\* empty, the context mode is not OBJECT and O is not the active object.
C15_Witness ==
    /\ Pending /\ Len(last.pre.map[CommitUuid]) = 0
    /\ Len(last.pre.bones[ObjData[last.target]]) > 0
    /\ last.pre.active \notin {None, last.target}
    /\ last.pre.mode[last.pre.active] = "POSE"
    /\ bones = last.pre.bones

\* C16: _edit_bones_map is a function of mixer_uuids, so it holds at most
\* one entry for each.  Call by call: load, _diff and apply leave it as it
\* was; an accepted _save of a proxy that holds edit_bones puts them under
\* the mixer_uuid of its datablock in place of what was there, and touches
\* no other entry; every other _save leaves it as it was; apply_edit_bones
\* at most removes the entry of its object.  So an entry is always the value
\* of the most recent _save that stashed one for its mixer_uuid.
C16_CacheLastWriteWins ==
    /\ DOMAIN _edit_bones_map \subseteq Uuids
    /\ GuardedCall => _edit_bones_map = last.pre.map
    /\ last.op = "_save"
          => _edit_bones_map =
                 IF last.arg = <<TRUE>> /\ "edit_bones" \in DOMAIN last.pre.data
                 THEN Put(last.pre.map, mixer_uuid[last.target],
                          last.pre.data.edit_bones)
                 ELSE last.pre.map
    /\ CommitCall
          => _edit_bones_map \in {last.pre.map, Del(last.pre.map, CommitUuid)}

\* C16 witness: an accepted _save on the instance no object references has
\* replaced another value that was pending for the same mixer_uuid.
C16_Witness ==
    /\ last.op = "_save" /\ last.arg = <<TRUE>>
    /\ Owner(last.target) = None
    /\ mixer_uuid[last.target] \in DOMAIN last.pre.map
    /\ "edit_bones" \in DOMAIN _data
    /\ last.pre.map[mixer_uuid[last.target]] # _data.edit_bones
    /\ _edit_bones_map[mixer_uuid[last.target]] = _data.edit_bones

\* The modes of the objects after the first i host calls of the call that
\* has just ended.
ModeAt(i) ==
    [o \in Objects |->
        LET sets == {j \in 1..i : /\ last.events[j][1] = "mode_set"
                                  /\ last.events[j][2] = o}
        IN IF sets = {} THEN last.pre.mode[o]
           ELSE last.events[CHOOSE j \in sets : \A k \in sets : k <= j][3]]

\* The objects that are in EDIT mode under the modes m.
GatedOwners(m) == {o \in Objects : m[o] = "EDIT"}

\* C17: from a state where at most one object is in EDIT mode, at every
\* point of a load, _diff, apply or apply_edit_bones in which the host
\* refuses no mode switch at most one object is in EDIT mode, and when the
\* call has ended no object is in EDIT mode that was not in it before the
\* call.
C17_OneGatedSession ==
    (/\ GuardedCall \/ CommitCall
     /\ ~Ran("refused")
     /\ Cardinality(GatedOwners(last.pre.mode)) <= 1)
        => /\ \A i \in 0..Len(last.events) :
                  Cardinality(GatedOwners(ModeAt(i))) <= 1
           /\ GatedOwners(mode) \subseteq GatedOwners(last.pre.mode)

\* C18: a load of a datablock that has an owner, once the delegated load
\* has completed, holds in the proxy the edit_bones the datablock had when
\* load was called, whatever the mode of the owner and the active object
\* were; a load that returns normally has run the delegated load.
C18_LoadCapturesLiveEditBones ==
    (last.op = "load" /\ Owner(last.target) # None)
        => /\ last.exc = "none" => Ran("body")
           /\ (Ran("body") /\ last.exc # "BodyError")
                => /\ "edit_bones" \in DOMAIN _data
                   /\ _data.edit_bones = last.pre.bones[last.target]

\* C18 witness: a load has returned normally from a state where the owner
\* was in OBJECT mode and not the active object, and the proxy now holds
\* the non-empty live edit_bones, which it did not hold before.
C18_Witness ==
    /\ last.op = "load" /\ last.exc = "none"
    /\ Owner(last.target) # None
    /\ last.pre.mode[Owner(last.target)] = "OBJECT"
    /\ last.pre.active # Owner(last.target)
    /\ Len(last.pre.bones[last.target]) > 0
    /\ "edit_bones" \in DOMAIN last.pre.data
    /\ last.pre.data.edit_bones # last.pre.bones[last.target]
    /\ _data.edit_bones = last.pre.bones[last.target]

\* C19: an apply repeated with the same attribute, key, delta and
\* to_blender returns normally like the first and leaves the proxy, the live
\* attributes, the mode of every object, the active object and
\* _edit_bones_map as the first apply left them.
C19_ApplyTwiceIsApplyOnce ==
    last.op = "apply_again"
        => /\ last.exc = "none" /\ last.ret = "self"
           /\ _data = last.pre.data
           /\ name = last.pre.name /\ bones = last.pre.bones
           /\ mode = last.pre.mode /\ active = last.pre.active
           /\ _edit_bones_map = last.pre.map

\* C19 witness: the repeated apply carried a delta of edit_bones written
\* through to the datablock, other than the value pending in
\* _edit_bones_map, while the owner was in OBJECT mode and another object,
\* in POSE mode, was active.
C19_Witness ==
    /\ last.op = "apply_again" /\ last.exc = "none"
    /\ last.arg[3]
    /\ "edit_bones" \in DOMAIN last.arg[2]
    /\ Len(last.arg[2].edit_bones) > 0
    /\ bones[last.target] = last.arg[2].edit_bones
    /\ Ran("write")
    /\ active # Owner(last.target)
    /\ mode[active] = "POSE" /\ mode[Owner(last.target)] = "OBJECT"

\* The active object after the first i host calls of the call that has just
\* ended.
ActiveAt(i) ==
    LET sets == {j \in 1..i : last.events[j][1] = "active"}
    IN IF sets = {} THEN last.pre.active
       ELSE last.events[CHOOSE j \in sets : \A k \in sets : k <= j][2]

\* The object whose EDIT mode the call that has just ended needs.
CallOwner == IF CommitCall THEN last.target ELSE Owner(last.target)

\* The i-th step of the call reads or writes edit_bones: the delegated body
\* of load, _diff or apply, or a write of edit_bones.
GatedAccess(i) ==
    \/ last.events[i][1] = "body"
    \/ last.events[i][1] = "write" /\ last.events[i][3] = "edit_bones"

\* The owner is in EDIT mode at the i-th step, after a switch to EDIT mode
\* that the call has made on it.
InEditAt(i) ==
    /\ last.events[i][4]
    /\ ModeAt(i - 1)[CallOwner] = "EDIT"
    /\ \E j \in 1..(i - 1) : last.events[j] = <<"mode_set", CallOwner, "EDIT">>

\* The host calls of a step sequence that switch modes, set the active
\* object or write.
IsStep(e) == e[1] \in {"mode_set", "refused", "active", "write"}

\* The steps of an apply_edit_bones that reaches the write: to OBJECT mode
\* when the context is in another mode, the object made active, to EDIT
\* mode, the write, back to OBJECT mode (or the refusal of that switch).
CommitOrder ==
    LET obj == last.target
        pre == [mode |-> last.pre.mode, active |-> last.pre.active]
        head == IF ContextMode(pre) # "OBJECT"
                THEN << <<"mode_set", last.pre.active, "OBJECT">> >> ELSE <<>>
        core == << <<"active", obj>>, <<"mode_set", obj, "EDIT">>,
                   <<"write", ObjData[obj], "edit_bones", TRUE>> >>
        steps == SelectSeq(last.events, IsStep)
    IN \E end \in {"mode_set", "refused"} :
          steps = head \o core \o << <<end, obj, "OBJECT">> >>

\* C20 (as stated): every read or write of edit_bones by load, _diff, apply
\* or apply_edit_bones happens while the owner is the active object and is
\* in EDIT mode, and apply_edit_bones runs its steps in the order to OBJECT,
\* set active, to EDIT, write, to OBJECT.
C20_GatedAccessOwnerActiveInEdit ==
    (GuardedCall \/ CommitCall)
        => /\ \A i \in 1..Len(last.events) :
                  GatedAccess(i) => InEditAt(i) /\ ActiveAt(i - 1) = CallOwner
           /\ (CommitCall /\ Ran("write")) => CommitOrder

\* C20 (amended): every read or write of edit_bones by load, _diff, apply or
\* apply_edit_bones happens while the owner is in EDIT mode, after the call
\* has switched it to EDIT; in _diff, apply and apply_edit_bones the owner
\* is the active object then, in load the active object is the one of before
\* the call (the owner is the active object of the context handed to
\* mode_set only); apply_edit_bones runs its steps in the order to OBJECT,
\* set active, to EDIT, write, to OBJECT.
C20_GatedAccessInEdit ==
    (GuardedCall \/ CommitCall)
        => /\ \A i \in 1..Len(last.events) :
                  GatedAccess(i)
                    => /\ InEditAt(i)
                       /\ ActiveAt(i - 1) = IF last.op = "load"
                                            THEN last.pre.active ELSE CallOwner
           /\ (CommitCall /\ Ran("write")) => CommitOrder

\* C20 witness: an apply_edit_bones that started with another object active
\* in POSE mode and the owner in OBJECT mode has gone through all five
\* steps and written the pending value.
C20_Witness ==
    /\ CommitCall /\ Ran("write") /\ ~Ran("write_failed") /\ last.exc = "none"
    /\ last.pre.active \notin {None, last.target}
    /\ last.pre.mode[last.pre.active] = "POSE"
    /\ last.pre.mode[last.target] = "OBJECT"
    /\ Len(SelectSeq(last.events, IsStep)) = 5
    /\ bones[ObjData[last.target]] = last.pre.map[CommitUuid]
    /\ bones # last.pre.bones

====
